---- MODULE Spec2Model ----
(***************************************************************************)
(* Model of mirrord's layer detour module (mirrord/layer/src/detour.rs):   *)
(* the thread-local DETOUR_BYPASS flag with its DetourGuard, and the       *)
(* write-once OnceLock slots (HookFn, get_or_detour_init).                 *)
(***************************************************************************)
EXTENDS Integers, Sequences, FiniteSets, TLC

\* ---------------------------------------------------------------- bounds
NumThreads == 2
MaxNested == 1
NumSteps == 3

Threads == 1..NumThreads

\* ------------------------------------------------------------- variables
VARIABLES
  DETOUR_BYPASS,  \* per thread: the RefCell<bool> of the thread_local!
  stack,          \* per thread: the hooked calls in progress, outermost first
  mode,           \* per thread: "run", or "unwind" while a panic unwinds
  nested,         \* per thread: hooked calls made so far from inside the
                  \* outermost hooked call in progress
  exit,           \* per thread: how the guarded hook scope that ended last
                  \* was left, "none" once another hooked call is entered
  slot,           \* per hooked operation: the OnceLock<T> inside its HookFn
  call,           \* per thread: its operation on a slot, in progress or last
  hd,             \* the handler of a hook that is being run, step by step
  ev,             \* the last evaluation of a conversion or combinator
  vc              \* the run of verify_config in progress, or the last one

guardVars == <<DETOUR_BYPASS, stack, mode, nested, exit>>

slotVars == <<slot, call>>

detourVars == <<hd, ev>>

verifyVars == <<vc>>

vars == <<DETOUR_BYPASS, stack, mode, nested, exit, slot, call, hd, ev, vc>>

\* ------------------------------------------------- RefCell<bool> (std)
\* borrow = 0: not borrowed, n > 0: n shared borrows, -1: mutably borrowed
\* (every borrow ends inside the closure that takes it, so none is
\* outstanding between two steps of a thread)
RefCellNew(v) == [value |-> v, borrow |-> 0]

TryBorrow(cell) == cell.borrow >= 0

TryBorrowMut(cell) == cell.borrow = 0

\* thread_local!: `DETOUR_BYPASS.with` reaches the calling thread's cell only
\* (variant: one cell shared by every thread)
WithThreadLocal_Shared(cells, t, cell) == [u \in DOMAIN cells |-> cell]

WithThreadLocal(cells, t, cell) == [cells EXCEPT ![t] = cell]

\* ------------------------------------------------------ detour_bypass_off
\* (variant: the flag is left as it is)
detour_bypass_off_Keep(cell) == cell

detour_bypass_off(cell) ==
  IF TryBorrowMut(cell) THEN [cell EXCEPT !.value = FALSE] ELSE cell

\* ------------------------------------------------------- DetourGuard::new
\* the result: guard = TRUE for Some(DetourGuard), FALSE for None
\* (variant: the test of the flag is left out)
DetourGuardNew_NoCheck(cell) ==
  IF TryBorrowMut(cell)
    THEN [guard |-> TRUE, cell |-> [cell EXCEPT !.value = TRUE]]
    ELSE [guard |-> FALSE, cell |-> cell]

\* (variant: the flag is not written)
DetourGuardNew_NoSet(cell) ==
  IF TryBorrow(cell) /\ cell.value
    THEN [guard |-> FALSE, cell |-> cell]
    ELSE IF TryBorrowMut(cell)
      THEN [guard |-> TRUE, cell |-> cell]
      ELSE [guard |-> FALSE, cell |-> cell]

DetourGuardNew(cell) ==
  IF TryBorrow(cell) /\ cell.value
    THEN [guard |-> FALSE, cell |-> cell]
    ELSE IF TryBorrowMut(cell)
      THEN [guard |-> TRUE, cell |-> [cell EXCEPT !.value = TRUE]]
      ELSE [guard |-> FALSE, cell |-> cell]

\* ------------------------------------------------- Drop for DetourGuard
DetourGuardDrop(cell) == detour_bypass_off(cell)

\* dropping the Option<DetourGuard> a hook holds: None drops nothing
\* (variant: None clears the flag too)
DropGuardOption_Always(guard, cell) == DetourGuardDrop(cell)

DropGuardOption(guard, cell) == IF guard THEN DetourGuardDrop(cell) ELSE cell

\* ------------------------------------------------------------- frames
\* a hooked call in progress: guard = it holds Some(DetourGuard);
\* pc = "logic" while the engine's handler runs, "orig" while the original
\* implementation runs
Frame(g, p) == [guard |-> g, pc |-> p]

Top(s) == s[Len(s)]

Pop(s) == SubSeq(s, 1, Len(s) - 1)

\* the body of a hook (hook_guard_fn): without a guard the original
\* implementation is called at once, with a guard the handler runs
HookDispatch(guard) == IF guard THEN "logic" ELSE "orig"

GuardsHeld(t) == {i \in 1..Len(stack[t]) : stack[t][i].guard}

InitGuard ==
  /\ DETOUR_BYPASS = [t \in Threads |-> RefCellNew(FALSE)]
  /\ stack = [t \in Threads |-> <<>>]
  /\ mode = [t \in Threads |-> "run"]
  /\ nested = [t \in Threads |-> 0]
  /\ exit = [t \in Threads |-> "none"]

\* a hooked function is entered on thread t (by the host process, by the
\* engine's handler, or by the original implementation): DetourGuard::new
\* decides between the handler and the original implementation
HookEnter(t) ==
  /\ mode[t] = "run"
  /\ stack[t] # <<>> => nested[t] < MaxNested
  /\ LET r == DetourGuardNew(DETOUR_BYPASS[t]) IN
       /\ DETOUR_BYPASS' = WithThreadLocal(DETOUR_BYPASS, t, r.cell)
       /\ stack' = [stack EXCEPT ![t] =
            Append(@, Frame(r.guard, HookDispatch(r.guard)))]
  /\ nested' = [nested EXCEPT ![t] = IF stack[t] = <<>> THEN 0 ELSE @ + 1]
  /\ exit' = [exit EXCEPT ![t] = "none"]
  /\ UNCHANGED <<mode, slotVars, detourVars, verifyVars>>

\* the handler yields Bypass: the hook calls the original implementation,
\* its guard still alive
LogicBypass(t) ==
  /\ mode[t] = "run"
  /\ stack[t] # <<>>
  /\ Top(stack[t]).pc = "logic"
  /\ stack' = [stack EXCEPT ![t][Len(stack[t])].pc = "orig"]
  /\ UNCHANGED <<DETOUR_BYPASS, mode, nested, exit, slotVars,
                 detourVars, verifyVars>>

\* the scope of the top hook ends: its Option<DetourGuard> is dropped
LeaveScope(t, how) ==
  /\ DETOUR_BYPASS' = WithThreadLocal(DETOUR_BYPASS, t,
        DropGuardOption(Top(stack[t]).guard, DETOUR_BYPASS[t]))
  /\ stack' = [stack EXCEPT ![t] = Pop(@)]
  /\ exit' = [exit EXCEPT ![t] = IF Top(stack[t]).guard THEN how ELSE @]
  /\ nested' = [nested EXCEPT ![t] = IF Len(stack[t]) = 1 THEN 0 ELSE @]

\* the handler yields Success or Error: the hook returns
LogicReturn(t, o) ==
  /\ mode[t] = "run"
  /\ stack[t] # <<>>
  /\ Top(stack[t]).pc = "logic"
  /\ LeaveScope(t, o)
  /\ UNCHANGED <<mode, slotVars, detourVars, verifyVars>>

\* the original implementation returns: the hook returns its value
OrigReturn(t) ==
  /\ mode[t] = "run"
  /\ stack[t] # <<>>
  /\ Top(stack[t]).pc = "orig"
  /\ LeaveScope(t, "Bypass")
  /\ UNCHANGED <<mode, slotVars, detourVars, verifyVars>>

\* a panic starts in the innermost hooked call
Panic(t) ==
  /\ mode[t] = "run"
  /\ stack[t] # <<>>
  /\ mode' = [mode EXCEPT ![t] = "unwind"]
  /\ UNCHANGED <<DETOUR_BYPASS, stack, nested, exit, slotVars,
                 detourVars, verifyVars>>

\* unwinding leaves the innermost scope, running the drop of its guard;
\* the panic is caught below the outermost hooked call
Unwind(t) ==
  /\ mode[t] = "unwind"
  /\ stack[t] # <<>>
  /\ LeaveScope(t, "Panic")
  /\ mode' = [mode EXCEPT ![t] = IF Len(stack[t]) = 1 THEN "run" ELSE @]
  /\ UNCHANGED <<slotVars, detourVars, verifyVars>>

ThreadNext(t) ==
  \/ HookEnter(t)
  \/ LogicBypass(t)
  \/ \E o \in {"Success", "Error"} : LogicReturn(t, o)
  \/ OrigReturn(t)
  \/ Panic(t)
  \/ Unwind(t)

NextGuard == \E t \in Threads : ThreadNext(t)

\* ------------------------------------------------------------- Detour<S>
Success(v) == [tag |-> "Success", val |-> v]

Bypass(b) == [tag |-> "Bypass", val |-> b]

Error(e) == [tag |-> "Error", val |-> e]

\* the Bypass reasons and the HookErrors the factories of the model yield
BypassSet == {[kind |-> "EmptyOption", arg |-> 0],
              [kind |-> "LocalFdNotFound", arg |-> 7]}

HookErrorSet == {"NullPointer"}

\* Try::branch
Continue(v) == [tag |-> "Continue", val |-> v]

Break(r) == [tag |-> "Break", val |-> r]

\* (variant: the reason of a Bypass is not carried over)
branch_DropsReason(d) ==
  CASE d.tag = "Success" -> Continue(d.val)
    [] d.tag = "Bypass" ->
         Break(Bypass([kind |-> "EmptyOption", arg |-> 0]))
    [] d.tag = "Error" -> Break(Error(d.val))

branch(d) ==
  CASE d.tag = "Success" -> Continue(d.val)
    [] d.tag = "Bypass" -> Break(Bypass(d.val))
    [] d.tag = "Error" -> Break(Error(d.val))

\* FromResidual<Detour<Infallible>>::from_residual
\* (variant: a Bypass residual comes back as an Error)
from_residual_AsError(residual) == Error("NullPointer")

from_residual(residual) ==
  CASE residual.tag = "Bypass" -> Bypass(residual.val)
    [] residual.tag = "Error" -> Error(residual.val)

\* ------------------------------------------------------ Option, OnceLock
None == <<>>

Some(v) == <<v>>

Unwrapped(o) == o[1]

Ok == [tag |-> "Ok", val |-> 0]

Err(v) == [tag |-> "Err", val |-> v]

Panicked == [tag |-> "Panic", val |-> 0]

NoResult == [tag |-> "None", val |-> 0]

OnceLockNew == None

OnceLockGet(lock) == lock

\* OnceLock::get_or_init with a closure that yields v: the new state of the
\* lock, whose content is what the call returns
\* (variant: the value is written over the stored one)
OnceLockGetOrInit_Overwrite(lock, v) == Some(v)

OnceLockGetOrInit(lock, v) == IF lock = None THEN Some(v) ELSE lock

\* OnceLock::set
\* (variant: the value is written over the stored one)
OnceLockSet_Overwrite(lock, v) == [lock |-> Some(v), res |-> Ok]

\* (variant: a full lock reports Ok)
OnceLockSet_SilentOk(lock, v) ==
  IF lock = None
    THEN [lock |-> Some(v), res |-> Ok]
    ELSE [lock |-> lock, res |-> Ok]

OnceLockSet(lock, v) ==
  IF lock = None
    THEN [lock |-> Some(v), res |-> Ok]
    ELSE [lock |-> lock, res |-> Err(v)]

\* HookFn::set
HookFnSet(lock, value) == OnceLockSet(lock, value)

\* Deref for HookFn: self.0.get().unwrap()
\* (variant: an empty lock yields a default value, as unwrap_or_default)
HookFnDeref_Default(lock) ==
  IF OnceLockGet(lock) = None THEN Success(0) ELSE Success(Unwrapped(lock))

HookFnDeref(lock) ==
  IF OnceLockGet(lock) = None THEN Panicked ELSE Success(Unwrapped(lock))

\* ------------------------------------------- closures and what they do
\* The closures handed to the combinators are named functions. An
\* evaluation carries the log of the closures invoked so far, each with its
\* argument: Out(d, log) is a value d together with that log.
Out(d, log) == [d |-> d, log |-> log]

LocalFdNotFound(fd) == [kind |-> "LocalFdNotFound", arg |-> fd]

EmptyOption == [kind |-> "EmptyOption", arg |-> 0]

NotImplemented == [kind |-> "NotImplemented", arg |-> 0]

\* steps of a handler, FnOnce(S) -> Detour<U>
StepFns == {"validate", "lookup", "perform", "fail", "none"}

\* FnOnce(S) -> U, for map
MapFns == {"inc", "twice"}

\* FnOnce(HookError) -> Detour<S>, for or_else
ErrorFns == {"recover", "rethrow", "giveup"}

\* FnOnce(Bypass) -> Detour<S>, for or_bypass
BypassFns == {"local", "keep", "refuse"}

\* what the named functions return
Apply(f, x) ==
  CASE f = "validate" -> Success(x + 1)
    [] f = "lookup" -> IF x = 7 THEN Bypass(LocalFdNotFound(x)) ELSE Success(x)
    [] f = "perform" -> Success(2 * x)
    [] f = "fail" -> Error("NullPointer")
    [] f = "none" -> Bypass(EmptyOption)
    [] f = "inc" -> x + 1
    [] f = "twice" -> 2 * x
    [] f = "recover" -> Success(0)
    [] f = "rethrow" -> Error(x)
    [] f = "giveup" -> Bypass(NotImplemented)
    [] f = "local" -> Success(x.arg)
    [] f = "keep" -> Bypass(x)
    [] f = "refuse" -> Error("NullPointer")
    [] f = "original" -> 100 + x.arg

\* the closure named f is invoked with x
Invoke(f, x, log) == Out(Apply(f, x), Append(log, <<f, x>>))

\* the HookErrors and the foreign errors the evaluations start from
HookErrors == {"NullPointer", "LockError"}

ForeignErrors == {"Utf8Error", "PoisonError"}

\* Into<HookError> for a foreign error
IntoHookError(e) ==
  CASE e = "Utf8Error" -> "Utf8"
    [] e = "PoisonError" -> "LockError"

\* From<HookError> for the native return type of a hook
IntoNative(e) ==
  CASE e = "NullPointer" -> -14
    [] e = "LockError" -> -35
    [] e = "Utf8" -> -22

\* ------------------------------------------------ Try and FromResidual
\* Try::from_output
from_output(output) == Success(output)

OkOf(v) == [tag |-> "Ok", val |-> v]

\* FromResidual<Result<Infallible, E>>, E: Into<HookError>
from_residual_result(residual) == Error(IntoHookError(residual.val))

\* FromResidual<Result<Infallible, Bypass>>
from_residual_result_bypass(residual) == Bypass(residual.val)

\* FromResidual<Option<Infallible>>
from_residual_option(residual) == Bypass(EmptyOption)

\* `r?` on a Result or an Option inside a function that returns Detour, the
\* unwrapped value handed on as Success: Ok and Some continue, Err and None
\* return through the from_residual of their type
TryResult(r) ==
  IF r.tag = "Ok" THEN from_output(r.val) ELSE from_residual_result(r)

TryResultBypass(r) ==
  IF r.tag = "Ok" THEN from_output(r.val) ELSE from_residual_result_bypass(r)

TryOption(o) ==
  IF o # None THEN from_output(Unwrapped(o)) ELSE from_residual_option(o)

\* ---------------------------------------------------- impl Detour<S>
\* a closure FnOnce(S) -> Detour<U> given to and_then: the step named fn,
\* and, when `then` is not empty, the steps chained to its result within
\* the closure, |x| fn(x).and_then(...)
Closure(fn) == [fn |-> fn, then |-> <<>>]

Nested(fn, rest) == [fn |-> fn, then |-> rest]

RECURSIVE and_then(_, _)

\* the closure c is called with x
CallOp(c, x, log) ==
  IF c.then = <<>>
    THEN Invoke(c.fn, x, log)
    ELSE and_then(Invoke(c.fn, x, log), Nested(Head(c.then), Tail(c.then)))

\* (variant: on Bypass and Error the closure is run all the same, for its
\* effects, before the failure is returned)
and_then_RunsOnFailure(self, op) ==
  CASE self.d.tag = "Success" -> CallOp(op, self.d.val, self.log)
    [] self.d.tag = "Bypass" ->
         Out(Bypass(self.d.val), CallOp(op, 0, self.log).log)
    [] self.d.tag = "Error" ->
         Out(Error(self.d.val), CallOp(op, 0, self.log).log)

\* (variant: the reason of a Bypass is not carried over)
and_then_DropsReason(self, op) ==
  CASE self.d.tag = "Success" -> CallOp(op, self.d.val, self.log)
    [] self.d.tag = "Bypass" -> Out(Bypass(EmptyOption), self.log)
    [] self.d.tag = "Error" -> Out(Error(self.d.val), self.log)

and_then(self, op) ==
  CASE self.d.tag = "Success" -> CallOp(op, self.d.val, self.log)
    [] self.d.tag = "Bypass" -> Out(Bypass(self.d.val), self.log)
    [] self.d.tag = "Error" -> Out(Error(self.d.val), self.log)

\* (variant: the closure is not applied)
map_NoApply(self, op) ==
  CASE self.d.tag = "Success" -> Out(Success(self.d.val), self.log)
    [] self.d.tag = "Bypass" -> Out(Bypass(self.d.val), self.log)
    [] self.d.tag = "Error" -> Out(Error(self.d.val), self.log)

map(self, op) ==
  CASE self.d.tag = "Success" ->
         LET r == Invoke(op, self.d.val, self.log) IN Out(Success(r.d), r.log)
    [] self.d.tag = "Bypass" -> Out(Bypass(self.d.val), self.log)
    [] self.d.tag = "Error" -> Out(Error(self.d.val), self.log)

\* (variant: the closure runs for a Bypass too)
or_else_AnyFailure(self, op) ==
  CASE self.d.tag = "Success" -> Out(Success(self.d.val), self.log)
    [] self.d.tag = "Bypass" -> Invoke(op, "NullPointer", self.log)
    [] self.d.tag = "Error" -> Invoke(op, self.d.val, self.log)

or_else(self, op) ==
  CASE self.d.tag = "Success" -> Out(Success(self.d.val), self.log)
    [] self.d.tag = "Bypass" -> Out(Bypass(self.d.val), self.log)
    [] self.d.tag = "Error" -> Invoke(op, self.d.val, self.log)

or_bypass(self, op) ==
  CASE self.d.tag = "Success" -> Out(Success(self.d.val), self.log)
    [] self.d.tag = "Bypass" -> Invoke(op, self.d.val, self.log)
    [] self.d.tag = "Error" -> Out(Error(self.d.val), self.log)

\* (variant: an Error is handed to the closure as well)
unwrap_or_bypass_with_OnError(self, op) ==
  CASE self.d.tag = "Success" -> Out(self.d.val, self.log)
    [] self.d.tag = "Bypass" -> Invoke(op, self.d.val, self.log)
    [] self.d.tag = "Error" -> Invoke(op, EmptyOption, self.log)

\* (variant: the closure is called a second time)
unwrap_or_bypass_with_Twice(self, op) ==
  CASE self.d.tag = "Success" -> Out(self.d.val, self.log)
    [] self.d.tag = "Bypass" ->
         Invoke(op, self.d.val, Invoke(op, self.d.val, self.log).log)
    [] self.d.tag = "Error" -> Out(IntoNative(self.d.val), self.log)

unwrap_or_bypass_with(self, op) ==
  CASE self.d.tag = "Success" -> Out(self.d.val, self.log)
    [] self.d.tag = "Bypass" -> Invoke(op, self.d.val, self.log)
    [] self.d.tag = "Error" -> Out(IntoNative(self.d.val), self.log)

\* (variant: everything but Success yields the provided value)
unwrap_or_bypass_Default(self, value) ==
  CASE self.d.tag = "Success" -> Out(self.d.val, self.log)
    [] self.d.tag = "Bypass" -> Out(value, self.log)
    [] self.d.tag = "Error" -> Out(value, self.log)

unwrap_or_bypass(self, value) ==
  CASE self.d.tag = "Success" -> Out(self.d.val, self.log)
    [] self.d.tag = "Bypass" -> Out(value, self.log)
    [] self.d.tag = "Error" -> Out(IntoNative(self.d.val), self.log)

\* OptionExt::bypass
\* (variant: the reason given by the caller is not used)
OptionBypass_EmptyOption(self, value) ==
  IF self # None THEN Success(Unwrapped(self)) ELSE Bypass(EmptyOption)

OptionBypass(self, value) ==
  IF self # None THEN Success(Unwrapped(self)) ELSE Bypass(value)

\* OptionDetourExt::transpose
\* (variant: None is handled the way `?` handles it)
transpose_NoneBypass(self) ==
  IF self = None THEN Bypass(EmptyOption)
  ELSE CASE Unwrapped(self).tag = "Success" ->
              Success(Some(Unwrapped(self).val))
         [] Unwrapped(self).tag = "Error" -> Error(Unwrapped(self).val)
         [] Unwrapped(self).tag = "Bypass" -> Bypass(Unwrapped(self).val)

\* (variant: the Error and the Bypass arm are mixed up)
transpose_Mixed(self) ==
  IF self = None THEN Success(None)
  ELSE CASE Unwrapped(self).tag = "Success" ->
              Success(Some(Unwrapped(self).val))
         [] Unwrapped(self).tag = "Error" -> Bypass(EmptyOption)
         [] Unwrapped(self).tag = "Bypass" -> Error("NullPointer")

transpose(self) ==
  IF self = None THEN Success(None)
  ELSE CASE Unwrapped(self).tag = "Success" ->
              Success(Some(Unwrapped(self).val))
         [] Unwrapped(self).tag = "Error" -> Error(Unwrapped(self).val)
         [] Unwrapped(self).tag = "Bypass" -> Bypass(Unwrapped(self).val)

\* the hooked operations that have a slot
Slots == {"FN_OPEN", "FN_CLOSE"}

\* the value (the original function pointer) thread t comes up with
ValueOf(t) == t

\* what a factory run on thread t can yield
FactoryOutcomes(t) ==
  {Success(ValueOf(t))} \cup {Bypass(b) : b \in BypassSet}
                        \cup {Error(e) : e \in HookErrorSet}

Call(o, p, s, f, r) == [op |-> o, pc |-> p, s |-> s, f |-> f, res |-> r]

InitSlot ==
  /\ slot = [s \in Slots |-> OnceLockNew]
  /\ call = [t \in Threads |-> Call("none", "idle", "FN_OPEN", NoResult, NoResult)]

\* no handler is being run, nothing has been evaluated
HdIdle ==
  [st |-> "idle", style |-> "none", steps |-> <<>>, k |-> 0,
   cur |-> Out(NoResult, <<>>), ret |-> Out(0, <<>>)]

NoEval == [op |-> "none"]

InitDetour ==
  /\ hd = HdIdle
  /\ ev = NoEval

\* verify_config has not been called
VcIdle ==
  [pc |-> "idle", ide |-> FALSE, log |-> <<>>, warnings |-> <<>>,
   layer_config |-> NoResult, verified |-> NoResult, out |-> <<>>,
   ret |-> NoResult]

InitVerify == vc = VcIdle

Init == InitGuard /\ InitSlot /\ InitDetour /\ InitVerify

\* get_or_detour_init, `if let Some(value) = self.get()`: a stored value is
\* returned at once, otherwise the factory is to run
\* (variant: the factory is to run whatever the lock holds)
InitBegin_Always(lock) == [pc |-> "factory", res |-> NoResult]

InitBegin(lock) ==
  IF OnceLockGet(lock) # None
    THEN [pc |-> "idle", res |-> Success(Unwrapped(OnceLockGet(lock)))]
    ELSE [pc |-> "factory", res |-> NoResult]

InitCall(t, s) ==
  /\ call[t].pc = "idle"
  /\ LET b == InitBegin(slot[s]) IN
       call' = [call EXCEPT ![t] = Call("init", b.pc, s, NoResult, b.res)]
  /\ UNCHANGED <<slot, guardVars, detourVars, verifyVars>>

\* get_or_detour_init, `let value = f()?`: the factory runs and yields d;
\* Success goes on to the store, Bypass and Error return from the call
InitFactory(t, d) ==
  /\ call[t].pc = "factory"
  /\ LET cf == branch(d) IN
       IF cf.tag = "Continue"
         THEN /\ call' = [call EXCEPT ![t].pc = "store", ![t].f = Success(cf.val)]
              /\ UNCHANGED slot
         ELSE /\ call' = [call EXCEPT ![t].pc = "idle", ![t].f = d,
                                      ![t].res = from_residual(cf.val)]
              /\ UNCHANGED slot
  /\ UNCHANGED <<guardVars, detourVars, verifyVars>>

\* get_or_detour_init, `Detour::Success(self.get_or_init(|| value))`
InitStore(t) ==
  /\ call[t].pc = "store"
  /\ LET s == call[t].s
         lock == OnceLockGetOrInit(slot[s], call[t].f.val) IN
       /\ slot' = [slot EXCEPT ![s] = lock]
       /\ call' = [call EXCEPT ![t].pc = "idle",
                               ![t].res = Success(Unwrapped(lock))]
  /\ UNCHANGED <<guardVars, detourVars, verifyVars>>

\* HookFn::set(value)
\* (variant: every HookFn is backed by the one lock of FN_OPEN)
Set_Shared(t, s) ==
  /\ call[t].pc = "idle"
  /\ LET r == HookFnSet(slot["FN_OPEN"], ValueOf(t)) IN
       /\ slot' = [slot EXCEPT !["FN_OPEN"] = r.lock]
       /\ call' = [call EXCEPT ![t] =
            Call("set", "idle", s, Success(ValueOf(t)), r.res)]
  /\ UNCHANGED <<guardVars, detourVars, verifyVars>>

Set(t, s) ==
  /\ call[t].pc = "idle"
  /\ LET r == HookFnSet(slot[s], ValueOf(t)) IN
       /\ slot' = [slot EXCEPT ![s] = r.lock]
       /\ call' = [call EXCEPT ![t] =
            Call("set", "idle", s, Success(ValueOf(t)), r.res)]
  /\ UNCHANGED <<guardVars, detourVars, verifyVars>>

\* the original is called through the HookFn: FN_ORIGINAL()
Deref(t, s) ==
  /\ call[t].pc = "idle"
  /\ call' = [call EXCEPT ![t] =
       Call("deref", "idle", s, NoResult, HookFnDeref(slot[s]))]
  /\ UNCHANGED <<slot, guardVars, detourVars, verifyVars>>

SlotNext(t) ==
  \/ \E s \in Slots : InitCall(t, s)
  \/ \E d \in FactoryOutcomes(t) : InitFactory(t, d)
  \/ InitStore(t)
  \/ \E s \in Slots : Set(t, s)
  \/ \E s \in Slots : Deref(t, s)

NextSlot == \E t \in Threads : SlotNext(t)

SpecSlot == Init /\ [][NextSlot]_vars

\* ------------------------------------------- cli: verify_config
\* CliError::from / `?` inside a closure that returns CliResult
IntoCliError(e) == [cli |-> e]

\* fail.to_string()
ErrorToString(fail) == <<"error", fail.cli>>

\* Result::map_err(CliError::from)
map_err(r) == IF r.tag = "Ok" THEN r ELSE Err(IntoCliError(r.val))

\* the steps of verify_config, in the order of the source
VerifySteps == <<"resolve", "profile", "verify">>

\* TryFutureExt::and_then on the chain so far: the closure, named step, runs
\* when the chain holds Ok and its result r replaces it; an Err is handed on
\* and the closure is not run. `chain` is the result with the steps run.
\* (variant: the closure runs whatever the chain holds)
future_and_then_Always(chain, step, r) ==
  [res |-> map_err(r), log |-> Append(chain.log, <<step, r.tag>>)]

future_and_then(chain, step, r) ==
  IF chain.res.tag = "Ok"
    THEN [res |-> map_err(r), log |-> Append(chain.log, <<step, r.tag>>)]
    ELSE chain

\* the targets, namespaces and features of the configs of the model
Targets ==
  {None, Some([kind |-> "Targetless", name |-> "-"]),
   Some([kind |-> "Pod", name |-> "p"]),
   Some([kind |-> "Deployment", name |-> "d"])}

Features == {"mirror", "copy_target"}

Configs ==
  [target : [path : Targets, namespace : {None, Some("ns")}],
   feature : Features]

\* From<Target> for VerifiedTarget
VerifiedTarget(value) == [verified |-> value.kind, name |-> value.name]

\* From<TargetConfig> for VerifiedTargetConfig
VerifiedTargetConfig(value) ==
  [path |-> IF value.path = None THEN None
            ELSE Some(VerifiedTarget(Unwrapped(value.path))),
   namespace |-> value.namespace]

\* TargetType::all()
TargetTypeAll == {"targetless", "pod", "deployment", "rollout"}

\* TargetType::compatible_with(&config.feature)
compatible_with(tt, feature) ==
  feature = "copy_target" => tt \in {"pod", "deployment"}

\* VerifiedConfig::Success { .. } and VerifiedConfig::Fail { .. }
VerifiedSuccess(config, warnings, compatible) ==
  [type |-> "Success", config |-> config, warnings |-> warnings,
   compatible_target_types |-> compatible, errors |-> <<>>]

VerifiedFail(errors) ==
  [type |-> "Fail", config |-> None, warnings |-> <<>>,
   compatible_target_types |-> {}, errors |-> errors]

\* `let verified = match layer_config { .. }`
Verified(layer_config, warnings) ==
  IF layer_config.tag = "Ok"
    THEN VerifiedSuccess(
           VerifiedTargetConfig(layer_config.val.target), warnings,
           {tt \in TargetTypeAll :
              compatible_with(tt, layer_config.val.feature)})
    ELSE VerifiedFail(<<ErrorToString(layer_config.val)>>)

\* serde_json::to_string_pretty on a VerifiedConfig
to_string_pretty(verified) == OkOf(<<"json", verified>>)

\* what resolve, the profile and verify may answer; resolve and verify push
\* their warnings to the context
ResolveErrors == {"ConfigError"}

ProfileErrors == {"ProfileError"}

VerifyErrors == {"Conflict"}

WarningSets == {<<>>, <<"deprecated">>}

\* mirrord verify-config [--ide] {path}: the context is built
VcCall(ide) ==
  /\ vc.pc \in {"idle", "returned"}
  /\ vc' = [VcIdle EXCEPT !.pc = "resolve", !.ide = ide]
  /\ UNCHANGED <<guardVars, slotVars, detourVars>>

\* LayerConfig::resolve(&mut config_context).map_err(CliError::from)
VcResolve(r, w) ==
  /\ vc.pc = "resolve"
  /\ vc' = [vc EXCEPT
       !.pc = "profile",
       !.layer_config = map_err(r),
       !.log = Append(@, <<"resolve", r.tag>>),
       !.warnings = IF r.tag = "Ok" THEN @ \o w ELSE @]
  /\ UNCHANGED <<guardVars, slotVars, detourVars>>

\* .and_then(|mut config| async { apply_profile_if_configured(..)?; .. })
VcProfile(f, e) ==
  /\ vc.pc = "profile"
  /\ LET r == IF e = "" THEN OkOf([vc.layer_config.val EXCEPT !.feature = f])
                        ELSE Err(e)
         chain == future_and_then(
                    [res |-> vc.layer_config, log |-> vc.log], "profile", r)
     IN vc' = [vc EXCEPT !.pc = "verify", !.layer_config = chain.res,
                         !.log = chain.log]
  /\ UNCHANGED <<guardVars, slotVars, detourVars>>

\* .and_then(|config| async { config.verify(&mut config_context)?; .. })
VcVerify(e, w) ==
  /\ vc.pc = "verify"
  /\ LET r == IF e = "" THEN vc.layer_config ELSE Err(e)
         chain == future_and_then(
                    [res |-> vc.layer_config, log |-> vc.log], "verify", r)
     IN vc' = [vc EXCEPT
          !.pc = "report",
          !.layer_config = chain.res,
          !.log = chain.log,
          !.warnings = IF Len(chain.log) > Len(vc.log) /\ r.tag = "Ok"
                         THEN @ \o w ELSE @]
  /\ UNCHANGED <<guardVars, slotVars, detourVars>>

\* the match, println!("{}", serde_json::to_string_pretty(&verified)?)
\* and Ok(())
VcReport ==
  /\ vc.pc = "report"
  /\ LET verified == Verified(vc.layer_config, vc.warnings)
         json == to_string_pretty(verified) IN
       vc' = [vc EXCEPT
         !.pc = "returned",
         !.verified = verified,
         !.out = IF json.tag = "Ok" THEN <<json.val>> ELSE <<>>,
         !.ret = IF json.tag = "Ok" THEN Ok ELSE Err(IntoCliError(json.val))]
  /\ UNCHANGED <<guardVars, slotVars, detourVars>>

NextVerify ==
  \/ \E ide \in BOOLEAN : VcCall(ide)
  \/ \E r \in {OkOf(c) : c \in Configs} \cup {Err(e) : e \in ResolveErrors} :
       \E w \in WarningSets : VcResolve(r, w)
  \/ \E f \in Features : \E e \in {""} \cup ProfileErrors : VcProfile(f, e)
  \/ \E e \in {""} \cup VerifyErrors : \E w \in WarningSets : VcVerify(e, w)
  \/ VcReport

SpecVerify == Init /\ [][NextVerify]_vars

\* the statics that are HookFn: the lock is a private field, written by
\* HookFn::set only and read by Deref only
HookFnNext(t) ==
  \/ \E s \in Slots : Set(t, s)
  \/ \E s \in Slots : Deref(t, s)

NextHookFn == \E t \in Threads : HookFnNext(t)

SpecHookFn == Init /\ [][NextHookFn]_vars

\* --------------------------------------------- a handler, step by step
\* the values a handler starts from
StartValues == {5, 6}

\* the handlers: NumSteps steps, each one of the named step functions
Handlers == [1..NumSteps -> StepFns]

\* a hook starts its handler on the value v; the handler is written either
\* as Success(v).and_then(s1).and_then(s2)... or with `?` after every step
Start(style, steps, v) ==
  /\ hd.st \in {"idle", "returned"}
  /\ hd' = [st |-> "run", style |-> style, steps |-> steps, k |-> 0,
            cur |-> Out(from_output(v), <<>>), ret |-> Out(0, <<>>)]
  /\ ev' = NoEval
  /\ UNCHANGED <<guardVars, slotVars, verifyVars>>

\* the next `.and_then(step)` of the chain is evaluated
StepAndThen ==
  /\ hd.st = "run"
  /\ hd.style = "and_then"
  /\ LET f == hd.steps[hd.k + 1] IN
       hd' = [hd EXCEPT
         !.cur = and_then(hd.cur, Closure(f)),
         !.k = @ + 1,
         !.st = IF hd.k + 1 = Len(hd.steps) THEN "done" ELSE "run"]
  /\ UNCHANGED <<guardVars, slotVars, ev, verifyVars>>

\* the next `let x = step(x)?` of the handler is evaluated: Continue binds
\* the value, Break returns from the handler through from_residual; after
\* the last step the handler returns Success of the value
StepTry ==
  /\ hd.st = "run"
  /\ hd.style = "try"
  /\ LET f == hd.steps[hd.k + 1]
         r == Invoke(f, hd.cur.d.val, hd.cur.log)
         cf == branch(r.d) IN
       IF cf.tag = "Continue"
         THEN hd' = [hd EXCEPT
                !.cur = Out(from_output(cf.val), r.log),
                !.k = @ + 1,
                !.st = IF hd.k + 1 = Len(hd.steps) THEN "done" ELSE "run"]
         ELSE hd' = [hd EXCEPT
                !.cur = Out(from_residual(cf.val), r.log),
                !.k = @ + 1,
                !.st = "done"]
  /\ UNCHANGED <<guardVars, slotVars, ev, verifyVars>>

\* the hook returns to the host what the handler's outcome unwraps to; a
\* Bypass calls the original implementation
HookUnwrap ==
  /\ hd.st = "done"
  /\ hd' = [hd EXCEPT
       !.ret = unwrap_or_bypass_with(hd.cur, "original"),
       !.st = "returned"]
  /\ UNCHANGED <<guardVars, slotVars, ev, verifyVars>>

\* ------------------------------------- single conversions and combinators
SuccessValues == {5, 7}

DetourInputs ==
  {Success(v) : v \in SuccessValues} \cup {Bypass(b) : b \in BypassSet}
    \cup {Error(e) : e \in HookErrors}

ResultInputs ==
  {OkOf(v) : v \in SuccessValues} \cup {Err(e) : e \in ForeignErrors}

ResultBypassInputs ==
  {OkOf(v) : v \in SuccessValues} \cup {Err(b) : b \in BypassSet}

OptionInputs == {None} \cup {Some(v) : v \in SuccessValues}

OptionDetourInputs == {None} \cup {Some(d) : d \in DetourInputs}

\* an evaluation replaces the last one; no handler is in progress
Evaluated(e) ==
  /\ hd.st \in {"idle", "returned"}
  /\ hd' = HdIdle
  /\ ev' = e
  /\ UNCHANGED <<guardVars, slotVars, verifyVars>>

Eval(o, in, f, out) == [op |-> o, in |-> in, f |-> f, out |-> out]

EvalAndThen(m, f) ==
  Evaluated(Eval("and_then", m, f,
    and_then(Out(m, <<>>), Closure(f))))

EvalMap(m, f) ==
  Evaluated(Eval("map", m, f,
    map(Out(m, <<>>), f)))

EvalOrElse(m, f) ==
  Evaluated(Eval("or_else", m, f,
    or_else(Out(m, <<>>), f)))

EvalOrBypass(m, f) ==
  Evaluated(Eval("or_bypass", m, f,
    or_bypass(Out(m, <<>>), f)))

EvalUnwrapWith(m) ==
  Evaluated(Eval("unwrap_or_bypass_with", m, "original",
    unwrap_or_bypass_with(Out(m, <<>>), "original")))

EvalUnwrap(m, value) ==
  Evaluated(Eval("unwrap_or_bypass", m, value,
    unwrap_or_bypass(Out(m, <<>>), value)))

\* `m?` on a Detour, the unwrapped value handed on as Success
TryDetour(m) ==
  LET cf == branch(m) IN
    IF cf.tag = "Continue" THEN from_output(cf.val) ELSE from_residual(cf.val)

EvalTry(m) == Evaluated(Eval("try", m, "?", Out(TryDetour(m), <<>>)))

EvalTryResult(r) ==
  Evaluated(Eval("try_result", r, "?", Out(TryResult(r), <<>>)))

EvalTryResultBypass(r) ==
  Evaluated(Eval("try_result_bypass", r, "?", Out(TryResultBypass(r), <<>>)))

EvalTryOption(o) ==
  Evaluated(Eval("try_option", o, "?", Out(TryOption(o), <<>>)))

EvalOptionBypass(o, b) ==
  Evaluated(Eval("bypass", o, b, Out(OptionBypass(o, b), <<>>)))

EvalTranspose(o) ==
  Evaluated(Eval("transpose", o, "-", Out(transpose(o), <<>>)))

\* and_then chained, and_then nested in the closure, and the match written
\* out by hand, on the same outcome and the same two steps
NestedMatch(m, f, g) ==
  CASE m.tag = "Success" ->
         (LET r == Invoke(f, m.val, <<>>) IN
            CASE r.d.tag = "Success" -> Invoke(g, r.d.val, r.log)
              [] r.d.tag = "Bypass" -> Out(Bypass(r.d.val), r.log)
              [] r.d.tag = "Error" -> Out(Error(r.d.val), r.log))
    [] m.tag = "Bypass" -> Out(Bypass(m.val), <<>>)
    [] m.tag = "Error" -> Out(Error(m.val), <<>>)

EvalAssoc(m, f, g) ==
  Evaluated(
    [op |-> "assoc", in |-> m, f |-> <<f, g>>,
     out |-> and_then(and_then(Out(m, <<>>), Closure(f)), Closure(g)),
     right |-> and_then(Out(m, <<>>), Nested(f, <<g>>)),
     nested |-> NestedMatch(m, f, g)])

\* the handler written with `?`: every step is `let x = step(x)?;`, the last
\* line is Success(x)
RECURSIVE TryHandler(_, _, _)

TryHandler(steps, x, log) ==
  IF steps = <<>>
    THEN Out(from_output(x), log)
    ELSE LET r == Invoke(Head(steps), x, log)
             cf == branch(r.d) IN
           IF cf.tag = "Continue"
             THEN TryHandler(Tail(steps), cf.val, r.log)
             ELSE Out(from_residual(cf.val), r.log)

\* the same handler written as nested and_then calls,
\* s1(v).and_then(|x| s2(x).and_then(|y| s3(y)))
AndThenHandler(steps, x, log) ==
  CallOp(Nested(Head(steps), Tail(steps)), x, log)

\* both handlers are run on the same steps and the same argument
EvalHandlers(steps, v) ==
  Evaluated(
    [op |-> "handlers", in |-> v, f |-> steps,
     out |-> TryHandler(steps, v, <<>>),
     right |-> AndThenHandler(steps, v, <<>>)])

\* get_or_detour_init run from its first to its last line with no other
\* thread in between, on a lock and a factory that yields d
get_or_detour_init(lock, d) ==
  LET b == InitBegin(lock) IN
    IF b.pc = "idle"
      THEN [lock |-> lock, res |-> b.res]
      ELSE LET cf == branch(d) IN
             IF cf.tag = "Continue"
               THEN LET stored == OnceLockGetOrInit(lock, cf.val) IN
                      [lock |-> stored, res |-> Success(Unwrapped(stored))]
               ELSE [lock |-> lock, res |-> from_residual(cf.val)]

EvalGetOrDetourInit(lock, d) ==
  Evaluated(Eval("get_or_detour_init", d, lock,
    Out(get_or_detour_init(lock, d).res, <<>>)))

NextDetour ==
  \/ \E style \in {"and_then", "try"} : \E steps \in Handlers :
       \E v \in StartValues : Start(style, steps, v)
  \/ StepAndThen
  \/ StepTry
  \/ HookUnwrap
  \/ \E m \in DetourInputs : \E f \in StepFns : EvalAndThen(m, f)
  \/ \E m \in DetourInputs : \E f \in MapFns : EvalMap(m, f)
  \/ \E m \in DetourInputs : \E f \in ErrorFns : EvalOrElse(m, f)
  \/ \E m \in DetourInputs : \E f \in BypassFns : EvalOrBypass(m, f)
  \/ \E m \in DetourInputs : EvalUnwrapWith(m)
  \/ \E m \in DetourInputs : \E value \in {0, 100} : EvalUnwrap(m, value)
  \/ \E m \in DetourInputs : EvalTry(m)
  \/ \E r \in ResultInputs : EvalTryResult(r)
  \/ \E r \in ResultBypassInputs : EvalTryResultBypass(r)
  \/ \E o \in OptionInputs : EvalTryOption(o)
  \/ \E o \in OptionInputs : \E b \in BypassSet : EvalOptionBypass(o, b)
  \/ \E o \in OptionDetourInputs : EvalTranspose(o)
  \/ \E m \in DetourInputs : \E f, g \in StepFns : EvalAssoc(m, f, g)
  \/ \E lock \in {None, Some(1)} : \E d \in DetourInputs :
       EvalGetOrDetourInit(lock, d)
  \/ \E steps \in Handlers : \E v \in StartValues : EvalHandlers(steps, v)

SpecDetour == Init /\ [][NextDetour]_vars

\* a thread that is inside a hooked call keeps running: the handler, the
\* original implementation and the unwinding all terminate
Progress(t) == stack[t] # <<>> /\ ThreadNext(t)

SpecGuard == Init /\ [][NextGuard]_vars

FairSpecGuard == SpecGuard /\ \A t \in Threads : WF_vars(Progress(t))

\* ------------------------------------------- the flag without its guard
\* detour_bypass_off() is called directly (it is pub(super)), outside any
\* drop of a guard
DirectOff(t) ==
  /\ mode[t] = "run"
  /\ DETOUR_BYPASS' = WithThreadLocal(DETOUR_BYPASS, t,
        detour_bypass_off(DETOUR_BYPASS[t]))
  /\ UNCHANGED <<stack, mode, nested, exit, slotVars, detourVars, verifyVars>>

\* a DetourGuard built as the unit struct `DetourGuard`, not by
\* DetourGuard::new, is dropped
ForgedDrop(t) ==
  /\ mode[t] = "run"
  /\ DETOUR_BYPASS' = WithThreadLocal(DETOUR_BYPASS, t,
        DetourGuardDrop(DETOUR_BYPASS[t]))
  /\ UNCHANGED <<stack, mode, nested, exit, slotVars, detourVars, verifyVars>>

\* the threads whose code touches the flag without DetourGuard::new (one
\* such thread is enough to show what these operations do)
DirectCallers == {1}

NextOpen ==
  \/ \E t \in Threads : ThreadNext(t)
  \/ \E t \in DirectCallers : DirectOff(t)
  \/ \E t \in DirectCallers : ForgedDrop(t)

SpecOpen == Init /\ [][NextOpen]_vars

\* ------------------------------------------------------------ properties
Flag(t) == DETOUR_BYPASS[t].value

Entered(t) == Len(stack'[t]) = Len(stack[t]) + 1

Left(t) == Len(stack'[t]) = Len(stack[t]) - 1

\* C1: on every thread at most one guard returned by DetourGuard::new is
\* alive at any instant, and a DetourGuard::new called while such a guard is
\* alive returns None.
C1_AtMostOneGuard ==
  /\ [](\A t \in Threads : Cardinality(GuardsHeld(t)) <= 1)
  /\ [][\A t \in Threads :
          (GuardsHeld(t) # {} /\ Entered(t)) => ~Top(stack'[t]).guard]_vars

C1_Witness ==
  \E t \in Threads :
    /\ Len(stack[t]) = 2
    /\ stack[t][1].guard
    /\ ~stack[t][2].guard

\* C2: whenever the scope of a guard ends (return after Success or Error,
\* return after the bypass to the original, or unwinding) the thread's flag
\* is false afterwards; an active flag is eventually false again; and with
\* no guard alive the flag is false, so the next DetourGuard::new is Some.
C2_ReleaseUnconditional ==
  /\ [][\A t \in Threads :
          (Left(t) /\ Top(stack[t]).guard) => ~DETOUR_BYPASS'[t].value]_vars
  /\ \A t \in Threads : Flag(t) ~> ~Flag(t)
  /\ [][\A t \in Threads :
          (GuardsHeld(t) = {} /\ Entered(t)) => Top(stack'[t]).guard]_vars

C2_Witness ==
  \E t \in Threads :
    /\ exit[t] = "Panic"
    /\ stack[t] = <<>>
    /\ ~Flag(t)

\* C3: no handler runs nested inside guarded processing: a hooked call
\* entered while the thread's flag is active, or while any hooked call is in
\* progress on the thread, goes straight to the original implementation, so
\* the only frame that can run handler logic is the outermost one.
C3_NoReinterception ==
  /\ [][\A t \in Threads :
          (Entered(t) /\ (Flag(t) \/ stack[t] # <<>>))
            => Top(stack'[t]).pc = "orig"]_vars
  /\ [](\A t \in Threads : \A i \in 1..Len(stack[t]) :
          stack[t][i].pc = "logic" => (i = 1 /\ Flag(t)))

C3_Witness ==
  \E t \in Threads :
    /\ Len(stack[t]) = 2
    /\ stack[t][1].pc = "logic"
    /\ stack[t][2].pc = "orig"
    /\ mode[t] = "run"

\* C4: a DetourGuard::new that finds the flag active leaves the cell as it
\* is, yields None and raises no panic; the return of that nested call
\* releases nothing; and the flag stays active for as long as the outer
\* guard is alive.
C4_FailedAcquireNoEffect ==
  /\ [][\A t \in Threads :
          /\ (Flag(t) /\ Entered(t)) =>
                /\ DETOUR_BYPASS'[t] = DETOUR_BYPASS[t]
                /\ ~Top(stack'[t]).guard
                /\ mode'[t] = mode[t]
          /\ (Left(t) /\ ~Top(stack[t]).guard) =>
                DETOUR_BYPASS'[t] = DETOUR_BYPASS[t]]_vars
  /\ [](\A t \in Threads : GuardsHeld(t) # {} => Flag(t))

C4_Witness ==
  \E t \in Threads :
    /\ Len(stack[t]) = 1
    /\ stack[t][1].guard
    /\ nested[t] = 1
    /\ Flag(t)
    /\ mode[t] = "run"

\* C5: a step changes the flag of a thread only if it is a step of that
\* thread, and a thread that holds no guard acquires one whatever guards
\* the other threads hold.
C5_FlagThreadPrivate ==
  /\ [][\A b \in Threads :
          DETOUR_BYPASS'[b] # DETOUR_BYPASS[b] => stack'[b] # stack[b]]_vars
  /\ [][\A b \in Threads :
          (GuardsHeld(b) = {} /\ Entered(b)) => Top(stack'[b]).guard]_vars

C5_Witness ==
  /\ \A t \in Threads : GuardsHeld(t) # {} /\ Flag(t)
  /\ \E a, b \in Threads : a # b /\ stack[a][1].pc # stack[b][1].pc
\* a finished call of the given operation on thread t
Finished(t, o) == call[t].op = o /\ call[t].pc = "idle"

\* a finished get_or_detour_init whose factory ran and yielded Success
InitRan(t) == Finished(t, "init") /\ call[t].f.tag = "Success"

\* C6: whatever the interleaving, every get_or_detour_init whose factory
\* yielded Success returns Success of the value the slot holds, so all the
\* callers of a slot hold the same value, the stored one, also those whose
\* own value lost the race.
C6_RaceOneValue ==
  \A t \in Threads :
    InitRan(t) =>
      /\ slot[call[t].s] # None
      /\ call[t].res.tag = "Success"
      /\ call[t].res.val = Unwrapped(slot[call[t].s])
      /\ \A u \in Threads :
           (InitRan(u) /\ call[u].s = call[t].s) => call[u].res = call[t].res

C6_Witness ==
  \E t, u \in Threads :
    /\ t # u
    /\ InitRan(t) /\ InitRan(u)
    /\ call[t].s = call[u].s
    /\ call[t].f # call[u].f
    /\ call[u].res = call[t].f

\* C7: a get_or_detour_init whose factory yields Bypass or Error returns
\* that very outcome and stores nothing, and a get_or_detour_init on a slot
\* that is (still) empty runs its factory.
C7_FailureNotCached ==
  /\ [](\A t \in Threads :
          (Finished(t, "init") /\ call[t].f.tag \in {"Bypass", "Error"}) =>
            /\ call[t].res.tag = call[t].f.tag
            /\ call[t].res.val = call[t].f.val)
  /\ [][\A t \in Threads :
          (call[t].pc = "factory" /\ call'[t].pc = "idle") =>
            /\ slot' = slot
            /\ call'[t].res.tag \in {"Bypass", "Error"}]_vars
  /\ [][\A t \in Threads : \A s \in Slots :
          (InitCall(t, s) /\ slot[s] = None) => call'[t].pc = "factory"]_vars

C7_Witness ==
  \E t, u \in Threads : \E s \in Slots :
    /\ Finished(u, "init") /\ call[u].s = s
    /\ call[u].res = Bypass([kind |-> "LocalFdNotFound", arg |-> 7])
    /\ InitRan(t) /\ call[t].s = s
    /\ call[t].res = Success(ValueOf(t))
    /\ slot[s] = Some(ValueOf(t))

\* C8: a get_or_detour_init on a populated slot does not run the factory,
\* changes nothing in the slot and returns Success of the stored value; a
\* call that follows a Success of get_or_detour_init on that slot returns
\* the same value again.
C8_PopulatedNoFactory ==
  [][\A t \in Threads : \A s \in Slots :
       (InitCall(t, s) /\ slot[s] # None) =>
         /\ call'[t].pc = "idle"
         /\ call'[t].f = NoResult
         /\ call'[t].res = Success(Unwrapped(slot[s]))
         /\ slot' = slot
         /\ (Finished(t, "init") /\ call[t].s = s
               /\ call[t].res.tag = "Success")
              => call'[t].res = call[t].res]_vars

C8_Witness ==
  \E t \in Threads :
    /\ Finished(t, "init")
    /\ call[t].f = NoResult
    /\ call[t].res.tag = "Success"
    /\ call[t].res.val # ValueOf(t)

\* C9: a populated slot never changes; every value read from a slot (by
\* get_or_detour_init or through Deref) is the value the slot holds; and a
\* HookFn::set on a populated slot returns Err of the value it was given.
C9_WriteOnce ==
  /\ [][\A s \in Slots : slot[s] # None => slot'[s] = slot[s]]_vars
  /\ [](\A t \in Threads :
          ((Finished(t, "init") \/ Finished(t, "deref"))
             /\ call[t].res.tag = "Success")
            => slot[call[t].s] = Some(call[t].res.val))
  /\ [][\A t \in Threads : \A s \in Slots :
          (Set(t, s) /\ slot[s] # None) =>
            /\ call'[t].res.tag = "Err"
            /\ call'[t].res.val = ValueOf(t)
            /\ slot'[s] = slot[s]]_vars

C9_Witness ==
  \E t, u \in Threads : \E s \in Slots :
    /\ Finished(t, "set") /\ call[t].s = s
    /\ call[t].res = Err(ValueOf(t))
    /\ Finished(u, "deref") /\ call[u].s = s
    /\ call[u].res.tag = "Success"
    /\ call[u].res.val # ValueOf(t)

\* a finished initializer (get_or_detour_init after a Success of its
\* factory, or HookFn::set) whose value differs from the stored one
SecondValueDiffers(t) ==
  /\ InitRan(t) \/ Finished(t, "set")
  /\ slot[call[t].s] # None
  /\ slot[call[t].s] # Some(call[t].f.val)

\* C10, as claimed: an initializer that comes second with a value different
\* from the stored one ends in a panic.
C10_Original ==
  \A t \in Threads : SecondValueDiffers(t) => call[t].res.tag = "Panic"

\* C10, amended: an initializer that comes second with a value different
\* from the stored one does not panic: get_or_detour_init drops its value
\* and returns Success of the stored one, HookFn::set returns Err of the
\* value it was given.
C10_SecondValueDropped ==
  \A t \in Threads :
    SecondValueDiffers(t) =>
      /\ call[t].op = "init" =>
           call[t].res = Success(Unwrapped(slot[call[t].s]))
      /\ call[t].op = "set" => call[t].res = Err(call[t].f.val)

C10_Witness ==
  \E t, u \in Threads :
    /\ SecondValueDiffers(t) /\ call[t].op = "init"
    /\ SecondValueDiffers(u) /\ call[u].op = "set"
\* ------------------------------------------------- combinator properties
\* two outcomes are the same variant with the same payload
SameDetour(a, b) == a.tag = b.tag /\ a.val = b.val

\* the handler written in the given style has started
Handling(style) == hd.st # "idle" /\ hd.style = style

\* the log of a handler names its steps in their order, each called with
\* the value the step before it succeeded with, and only after a success
InOrder(log) ==
  /\ \A i \in 1..Len(log) : log[i][1] = hd.steps[i]
  /\ \A i \in 1..(Len(log) - 1) :
       /\ Apply(log[i][1], log[i][2]).tag = "Success"
       /\ log[i + 1][2] = Apply(log[i][1], log[i][2]).val

\* the outcome so far is the outcome of the step that was called last
LastOutcome(out) ==
  Len(out.log) >= 1 =>
    SameDetour(out.d, Apply(out.log[Len(out.log)][1],
                            out.log[Len(out.log)][2]))

\* C11: in a chain of and_then steps the steps run in order; the first step
\* that returns Bypass(reason) or Error(e) ends the chain: no later step is
\* ever invoked and the outcome of the chain is exactly that Bypass(reason)
\* or Error(e); if every step succeeds, every step has run and the outcome
\* is the Success of the last step.
C11_AndThenShortCircuits ==
  /\ [](Handling("and_then") =>
         /\ Len(hd.cur.log) <= hd.k
         /\ InOrder(hd.cur.log)
         /\ LastOutcome(hd.cur)
         /\ hd.cur.d.tag = "Success" => Len(hd.cur.log) = hd.k)
  /\ [][(Handling("and_then") /\ hd'.st # "idle" /\ hd'.k = hd.k + 1
           /\ hd.cur.d.tag # "Success") =>
          hd'.cur = hd.cur]_vars

C11_Witness ==
  /\ Handling("and_then")
  /\ hd.st = "done"
  /\ hd.k = NumSteps
  /\ Len(hd.cur.log) = 2
  /\ hd.cur.d.tag = "Bypass"
  /\ hd.cur.d.val = LocalFdNotFound(7)

\* the handler is the one of the example: validate, lookup, perform, in
\* this order, started on the file descriptor 6
ExampleHandler ==
  /\ Handling("try")
  /\ hd.steps[1] = "validate"
  /\ hd.steps[2] = "lookup"
  /\ hd.steps[3] = "perform"
  /\ hd.k >= 2
  /\ hd.cur.log[1][2] = 6

\* C12: `?` on a Detour yields the value of a Success and goes on, and on a
\* Bypass or an Error returns from the enclosing function at once with the
\* same variant and the same payload; in the example handler, where lookup
\* finds no local descriptor 7, the handler returns exactly
\* Bypass(LocalFdNotFound(7)) and perform is never called.
C12_TryReturnsEarly ==
  /\ [](Handling("try") =>
         /\ Len(hd.cur.log) = hd.k
         /\ InOrder(hd.cur.log)
         /\ LastOutcome(hd.cur)
         /\ hd.cur.d.tag # "Success" => hd.st \in {"done", "returned"})
  /\ [](ExampleHandler =>
         /\ hd.st \in {"done", "returned"}
         /\ SameDetour(hd.cur.d, Bypass(LocalFdNotFound(7)))
         /\ Len(hd.cur.log) = 2
         /\ \A i \in 1..Len(hd.cur.log) : hd.cur.log[i][1] # "perform")
  /\ [][(Handling("try") /\ hd.cur.d.tag # "Success") =>
          (hd'.st = "run" => hd'.k = 0)]_vars

C12_Witness ==
  /\ ExampleHandler
  /\ hd.st = "done"
  /\ hd.cur.d.tag = "Bypass"

\* C13: converting into a Detour: a Result gives Success(v) for Ok(v) and
\* Error(e.into()) for Err(e); an Option gives Success(v) for Some(v) and,
\* for None, Bypass(EmptyOption) through `?` or Bypass(r) through
\* Option::bypass(r); a Result whose error is a Bypass gives Bypass(b) for
\* Err(b).
C13_Conversions ==
  /\ ev.op = "try_result" =>
       IF ev.in.tag = "Ok"
         THEN SameDetour(ev.out.d, Success(ev.in.val))
         ELSE SameDetour(ev.out.d, Error(IntoHookError(ev.in.val)))
  /\ ev.op = "try_result_bypass" =>
       IF ev.in.tag = "Ok"
         THEN SameDetour(ev.out.d, Success(ev.in.val))
         ELSE SameDetour(ev.out.d, Bypass(ev.in.val))
  /\ ev.op = "try_option" =>
       IF ev.in # None
         THEN SameDetour(ev.out.d, Success(ev.in[1]))
         ELSE SameDetour(ev.out.d, Bypass(EmptyOption))
  /\ ev.op = "bypass" =>
       IF ev.in # None
         THEN SameDetour(ev.out.d, Success(ev.in[1]))
         ELSE SameDetour(ev.out.d, Bypass(ev.f))

C13_Witness ==
  /\ ev.op = "bypass"
  /\ ev.in = None
  /\ ev.f = LocalFdNotFound(7)
  /\ ev.out.d.tag = "Bypass"
  /\ ev.out.d.val = LocalFdNotFound(7)

\* C14: the terminal unwrap has three results: Success(v) gives v;
\* Bypass(b) gives what the bypass closure returns for b, or the provided
\* value; Error(e) gives the conversion of e into the return type.
C14_TerminalUnwrap ==
  /\ ev.op = "unwrap_or_bypass_with" =>
       CASE ev.in.tag = "Success" ->
              ev.out.d = ev.in.val /\ ev.out.log = <<>>
         [] ev.in.tag = "Bypass" ->
              /\ ev.out.d = Apply("original", ev.in.val)
              /\ ev.out.log = << <<"original", ev.in.val>> >>
         [] ev.in.tag = "Error" ->
              ev.out.d = IntoNative(ev.in.val) /\ ev.out.log = <<>>
  /\ ev.op = "unwrap_or_bypass" =>
       CASE ev.in.tag = "Success" -> ev.out.d = ev.in.val
         [] ev.in.tag = "Bypass" -> ev.out.d = ev.f
         [] ev.in.tag = "Error" -> ev.out.d = IntoNative(ev.in.val)

C14_Witness ==
  /\ ev.op = "unwrap_or_bypass"
  /\ ev.in.tag = "Error"
  /\ ev.in.val = "LockError"
  /\ ev.f = 100
  /\ ev.out.d = -35

\* the calls of the original implementation recorded in a log
OriginalCalls(log) == {i \in 1..Len(log) : log[i][1] = "original"}

\* C15: a Bypass is settled inside the hook once and for all: the terminal
\* unwrap calls the original implementation exactly once, within the unwrap
\* itself, with the very reason of the Bypass; no step of the handler is run
\* again for that call, and what the host receives is what the original
\* returned, not an error value made from the Bypass.
C15_BypassOneShot ==
  /\ []((hd.st = "returned" /\ hd.cur.d.tag = "Bypass") =>
         /\ Cardinality(OriginalCalls(hd.ret.log)) = 1
         /\ hd.ret.log = Append(hd.cur.log, <<"original", hd.cur.d.val>>)
         /\ hd.ret.d = Apply("original", hd.cur.d.val))
  /\ [][(hd.st = "done" /\ hd.cur.d.tag = "Bypass" /\ hd' # hd) =>
          /\ hd'.st = "returned"
          /\ hd'.cur = hd.cur
          /\ hd'.k = hd.k]_vars
  /\ [][(hd.st = "returned" /\ hd' # hd) =>
          (hd'.st = "idle" \/ (hd'.st = "run" /\ hd'.k = 0))]_vars

C15_Witness ==
  /\ hd.st = "returned"
  /\ hd.cur.d.tag = "Bypass"
  /\ hd.cur.d.val = LocalFdNotFound(7)
  /\ hd.ret.d = 107
  /\ Len(hd.ret.log) = 3

\* C16: or_else runs its closure only for Error(e), on e, and returns what
\* the closure returns; or_bypass runs its closure only for Bypass(b), on b,
\* and returns what the closure returns; in every other case the closure is
\* not called and the outcome comes back with its variant and its payload.
C16_Recovery ==
  /\ ev.op = "or_else" =>
       IF ev.in.tag = "Error"
         THEN /\ ev.out.log = << <<ev.f, ev.in.val>> >>
              /\ SameDetour(ev.out.d, Apply(ev.f, ev.in.val))
         ELSE ev.out.log = <<>> /\ SameDetour(ev.out.d, ev.in)
  /\ ev.op = "or_bypass" =>
       IF ev.in.tag = "Bypass"
         THEN /\ ev.out.log = << <<ev.f, ev.in.val>> >>
              /\ SameDetour(ev.out.d, Apply(ev.f, ev.in.val))
         ELSE ev.out.log = <<>> /\ SameDetour(ev.out.d, ev.in)

C16_Witness ==
  /\ ev.op = "or_bypass"
  /\ ev.in.tag = "Bypass"
  /\ ev.in.val = LocalFdNotFound(7)
  /\ ev.f = "local"
  /\ ev.out.d.tag = "Success"
  /\ ev.out.d.val = 7

\* C17: map applies its closure only to the payload of a Success, giving
\* Success of the closure's result; for Bypass(b) and Error(e) the closure
\* is not called and the same variant with the same payload comes back.
C17_Map ==
  ev.op = "map" =>
    IF ev.in.tag = "Success"
      THEN /\ ev.out.log = << <<ev.f, ev.in.val>> >>
           /\ SameDetour(ev.out.d, Success(Apply(ev.f, ev.in.val)))
      ELSE ev.out.log = <<>> /\ SameDetour(ev.out.d, ev.in)

C17_Witness ==
  /\ ev.op = "map"
  /\ ev.in.tag = "Success"
  /\ ev.in.val = 5
  /\ ev.f = "twice"
  /\ ev.out.d.tag = "Success"
  /\ ev.out.d.val = 10

\* two evaluations gave the same outcome after the same closure calls
SameOut(a, b) == SameDetour(a.d, b.d) /\ a.log = b.log

\* C18: and_then is associative: for every outcome m and steps f and g,
\* m.and_then(f).and_then(g) gives the same outcome and calls the same
\* steps in the same order as m.and_then(|x| f(x).and_then(g)), and both
\* are what the three-way match nested by hand gives.
C18_Associative ==
  ev.op = "assoc" =>
    /\ SameOut(ev.out, ev.right)
    /\ SameOut(ev.out, ev.nested)

C18_Witness ==
  /\ ev.op = "assoc"
  /\ ev.in.tag = "Success"
  /\ ev.in.val = 5
  /\ ev.f = <<"validate", "perform">>
  /\ ev.out.d.tag = "Success"
  /\ ev.out.d.val = 12
  /\ Len(ev.right.log) = 2

\* C19, as claimed: the flag of a thread is active exactly while a guard
\* returned by DetourGuard::new is alive, whatever operations of the module
\* are called, so that no second guard can be acquired meanwhile.
C19_Original ==
  \A t \in Threads :
    /\ Flag(t) <=> GuardsHeld(t) # {}
    /\ Cardinality(GuardsHeld(t)) <= 1

\* C19, amended: DetourGuard::new is the only operation that makes the flag
\* active, so the flag is active only while a guard returned by it is alive;
\* the converse fails, a direct detour_bypass_off or the drop of a hand-built
\* DetourGuard clears the flag under a live guard.
C19_ActiveOnlyUnderGuard ==
  /\ [](\A t \in Threads : Flag(t) => GuardsHeld(t) # {})
  /\ [][\A t \in Threads :
          (~Flag(t) /\ DETOUR_BYPASS'[t].value) =>
            (Entered(t) /\ Top(stack'[t]).guard)]_vars

C19_Witness ==
  \E t \in Threads :
    /\ Len(stack[t]) = 2
    /\ stack[t][1].guard
    /\ stack[t][2].guard
    /\ Flag(t)

\* the combinators that hand a failure on
PassBypass == {"and_then", "map", "try", "or_else"}

PassError == {"and_then", "map", "try", "or_bypass"}

\* C20: a soft failure and a hard error are never taken for one another:
\* and_then, map, `?`, Option transpose and get_or_detour_init hand a Bypass
\* on as the same Bypass and an Error on as the same Error; or_else leaves a
\* Bypass as it is and or_bypass leaves an Error as it is, so that only
\* or_bypass or a terminal unwrap ends a Bypass and only or_else or a
\* terminal unwrap ends an Error. (get_or_detour_init runs its factory, and
\* so has a failure to hand on, when the lock is empty.)
C20_NoConflation ==
  /\ (ev.op \in PassBypass /\ ev.in.tag = "Bypass") =>
       SameDetour(ev.out.d, ev.in)
  /\ (ev.op \in PassError /\ ev.in.tag = "Error") =>
       SameDetour(ev.out.d, ev.in)
  /\ (ev.op = "transpose" /\ ev.in # None /\ ev.in[1].tag # "Success") =>
       SameDetour(ev.out.d, ev.in[1])
  /\ (ev.op = "get_or_detour_init" /\ ev.f = None
        /\ ev.in.tag # "Success") =>
       SameDetour(ev.out.d, ev.in)
  /\ (hd.st # "idle" /\ hd.cur.d.tag # "Success") => LastOutcome(hd.cur)

C20_Witness ==
  /\ ev.op = "transpose"
  /\ ev.in # None
  /\ ev.in[1].tag = "Error"
  /\ ev.in[1].val = "LockError"
  /\ ev.out.d.tag = "Error"
  /\ ev.out.d.val = "LockError"

\* C21: the original implementation is called for a Bypass only: the
\* terminal unwrap of a Success returns its value and the terminal unwrap of
\* an Error returns the native error value, and in neither case is the
\* recovery function called.
C21_OriginalOnlyOnBypass ==
  /\ (hd.st = "returned" /\ hd.cur.d.tag # "Bypass") =>
       /\ OriginalCalls(hd.ret.log) = {}
       /\ hd.ret.log = hd.cur.log
       /\ hd.cur.d.tag = "Success" => hd.ret.d = hd.cur.d.val
       /\ hd.cur.d.tag = "Error" => hd.ret.d = IntoNative(hd.cur.d.val)
  /\ (ev.op = "unwrap_or_bypass_with" /\ ev.in.tag # "Bypass") =>
       OriginalCalls(ev.out.log) = {}
  /\ (hd.st = "returned" /\ OriginalCalls(hd.ret.log) # {}) =>
       hd.cur.d.tag = "Bypass"

C21_Witness ==
  /\ hd.st = "returned"
  /\ hd.cur.d.tag = "Error"
  /\ hd.ret.d = -14
  /\ Len(hd.ret.log) = 2
  /\ OriginalCalls(hd.ret.log) = {}

\* the step of a handler at which it stopped: the number of steps called
StoppedAt(out) == Len(out.log)

\* C22: a handler written with `?` and the same handler written as nested
\* and_then calls are equivalent: whatever its steps return, both call the
\* same steps in the same order with the same arguments, stop at the same
\* step and return the same outcome.
C22_TryEqualsAndThen ==
  ev.op = "handlers" =>
    /\ SameDetour(ev.out.d, ev.right.d)
    /\ StoppedAt(ev.out) = StoppedAt(ev.right)
    /\ ev.out.log = ev.right.log
    /\ \A i \in 1..StoppedAt(ev.out) : ev.out.log[i][1] = ev.f[i]
    /\ ev.out.d.tag = "Success" => StoppedAt(ev.out) = NumSteps

C22_Witness ==
  /\ ev.op = "handlers"
  /\ ev.in = 6
  /\ ev.f[1] = "validate"
  /\ ev.f[2] = "lookup"
  /\ ev.out.d.tag = "Bypass"
  /\ ev.right.d.tag = "Bypass"
  /\ ev.right.d.val = LocalFdNotFound(7)
  /\ StoppedAt(ev.right) = 2

\* the thread t takes the step, a step of its call on the slot s
Acts(t, s) == call'[t] # call[t] /\ call'[t].s = s

\* C23: the slots of different hooked operations are independent: a step of
\* get_or_detour_init, of set or of a call through the HookFn on one slot
\* leaves every other slot as it is, and what it stores and returns is
\* settled by the content of its own slot and its own value; so the order
\* and the interleaving in which different slots are initialised do not
\* change what each of them ends up holding.
C23_SlotsIndependent ==
  /\ [][\A s \in Slots :
          slot'[s] # slot[s] =>
            \E t \in Threads :
              call'[t].s = s /\ call'[t].op \in {"init", "set"}]_vars
  /\ [][\A t \in Threads : \A s \in Slots :
          Acts(t, s) =>
            /\ \A o \in Slots \ {s} : slot'[o] = slot[o]
            /\ slot[s] # None => slot'[s] = slot[s]
            /\ (slot[s] = None /\ slot'[s] # None) =>
                 slot'[s] = Some(call'[t].f.val)
            /\ call'[t].op = "set" =>
                 /\ call'[t].res = HookFnSet(slot[s], call'[t].f.val).res
                 /\ slot'[s] = HookFnSet(slot[s], call'[t].f.val).lock
            /\ call'[t].op = "deref" =>
                 call'[t].res = HookFnDeref(slot[s])
            /\ (call'[t].op = "init" /\ call[t].pc = "idle") =>
                 IF slot[s] # None
                   THEN call'[t].res = Success(Unwrapped(slot[s]))
                   ELSE call'[t].pc = "factory"
            /\ (call'[t].op = "init" /\ call[t].pc = "store") =>
                 /\ slot'[s] = OnceLockGetOrInit(slot[s], call[t].f.val)
                 /\ call'[t].res = Success(Unwrapped(slot'[s]))]_vars

C23_Witness ==
  /\ slot["FN_OPEN"] = Some(1)
  /\ slot["FN_CLOSE"] = Some(2)
  /\ Finished(1, "init") /\ call[1].s = "FN_OPEN"
  /\ Finished(2, "set") /\ call[2].s = "FN_CLOSE"
  /\ call[2].res.tag = "Ok"

\* C24: transposing an Option of a Detour gives Success(None) for None,
\* Success(Some(s)) for Some(Success(s)), Error(e) for Some(Error(e)) and
\* Bypass(b) for Some(Bypass(b)), for every input.
C24_Transpose ==
  ev.op = "transpose" =>
    IF ev.in = None
      THEN ev.out.d.tag = "Success" /\ ev.out.d.val = None
      ELSE CASE ev.in[1].tag = "Success" ->
                  /\ ev.out.d.tag = "Success"
                  /\ ev.out.d.val = Some(ev.in[1].val)
             [] ev.in[1].tag = "Error" ->
                  /\ ev.out.d.tag = "Error"
                  /\ ev.out.d.val = ev.in[1].val
             [] ev.in[1].tag = "Bypass" ->
                  /\ ev.out.d.tag = "Bypass"
                  /\ ev.out.d.val = ev.in[1].val

C24_Witness ==
  /\ ev.op = "transpose"
  /\ ev.in = None
  /\ ev.out.d.tag = "Success"
  /\ ev.out.d.val = None

\* the thread t has called the original through the HookFn and got a value
Derefed(t) == Finished(t, "deref") /\ call[t].res.tag = "Success"

\* C25: calling the original through a HookFn gives the value stored by
\* the first set that succeeded: a lock is filled by a set that returns Ok,
\* with the value of that set, and is never changed afterwards; a call
\* through a HookFn whose lock is empty, no set having succeeded, panics and
\* gives no value.
C25_DerefStoredOrPanic ==
  /\ [][\A t \in Threads : \A s \in Slots :
          (Acts(t, s) /\ call'[t].op = "deref") =>
            IF slot[s] = None
              THEN call'[t].res = Panicked
              ELSE call'[t].res = Success(Unwrapped(slot[s]))]_vars
  /\ [][\A s \in Slots :
          slot'[s] # slot[s] =>
            /\ slot[s] = None
            /\ \E t \in Threads :
                 /\ Acts(t, s)
                 /\ call'[t].op = "set"
                 /\ call'[t].res = Ok
                 /\ slot'[s] = Some(call'[t].f.val)]_vars
  /\ [](\A t \in Threads :
          /\ Derefed(t) => slot[call[t].s] = Some(call[t].res.val)
          /\ (Finished(t, "set") /\ call[t].res.tag = "Err") =>
               slot[call[t].s] # None
          /\ \A u \in Threads :
               (Derefed(t) /\ Finished(u, "set") /\ call[u].res.tag = "Ok"
                  /\ call[u].s = call[t].s) =>
                 call[t].res.val = call[u].f.val)

C25_Witness ==
  /\ Finished(1, "deref")
  /\ call[1].s = "FN_OPEN"
  /\ call[1].res = Panicked
  /\ Derefed(2)
  /\ call[2].s = "FN_OPEN"
  /\ call[2].res.val = 2

\* the steps that verify_config ran, and the step that failed, if one did
StepsRun == [i \in 1..Len(vc.log) |-> vc.log[i][1]]

FailedStep == {i \in 1..Len(vc.log) : vc.log[i][2] = "Err"}

\* C26: verify_config reports the problems of a config as data: resolve,
\* the profile and verify run in this order and a step that fails is the
\* last one to run; then the output is Fail with exactly one error string,
\* otherwise it is Success with the target config, the warnings collected
\* and the compatible target types; in both cases the output is printed and
\* the function returns Ok.
C26_ProblemsAsData ==
  /\ StepsRun = SubSeq(VerifySteps, 1, Len(vc.log))
  /\ \A i \in FailedStep : i = Len(vc.log)
  /\ vc.pc \in {"report", "returned"} =>
       (Len(vc.log) < Len(VerifySteps) => FailedStep # {})
  /\ vc.pc = "returned" =>
       /\ vc.ret = Ok
       /\ vc.out = << <<"json", vc.verified>> >>
       /\ IF FailedStep # {}
            THEN /\ vc.verified.type = "Fail"
                 /\ Len(vc.verified.errors) = 1
                 /\ vc.verified.errors[1] = ErrorToString(vc.layer_config.val)
            ELSE /\ vc.verified.type = "Success"
                 /\ vc.verified.config =
                      VerifiedTargetConfig(vc.layer_config.val.target)
                 /\ vc.verified.warnings = vc.warnings
                 /\ vc.verified.compatible_target_types =
                      {tt \in TargetTypeAll :
                         compatible_with(tt, vc.layer_config.val.feature)}

C26_Witness ==
  /\ vc.pc = "returned"
  /\ vc.log = << <<"resolve", "Ok">>, <<"profile", "Err">> >>
  /\ vc.verified.type = "Fail"
  /\ vc.verified.errors = << <<"error", "ProfileError">> >>
  /\ vc.ret = Ok
====
